---- MODULE Spec2Model ----
(***************************************************************************)
(* ECG analysis pipeline: load_ecg_record, filter_signal, find_r_peaks,     *)
(* calculate_hrv_metrics (src/src/processing.py) and main (src/src/main.py).*)
(*                                                                          *)
(* Numbers.  Samples are integers on an arbitrary voltage grid.  Real       *)
(* quantities are kept exact: a frequency is counted in half-Hertz, a       *)
(* metric in hundredths of a millisecond (the two decimals round() keeps),  *)
(* and comparisons against mean + 2*std are done on cross-multiplied        *)
(* integers.  The IEEE non-finite results numpy produces are the values     *)
(* NaN, Inf and NegInf.  An exception leaving a function is recorded, by    *)
(* the name of its type, in the variable raised.                            *)
(***************************************************************************)
EXTENDS Integers, Sequences, FiniteSets, TLC

VARIABLES
    pc,          \* position of the run
    cache,       \* record name -> files of it present in the cache directory
    downloaded,  \* whether the last load_ecg_record call fetched from the archive
    successes,   \* record name -> successful loads so far, counted up to MaxLoads
    record_name, \* argument of the last load_ecg_record call
    record,      \* value returned by the last load_ecg_record call
    signal,      \* samples handed to filter_signal / find_r_peaks
    fs,          \* sampling rate
    low_cut,     \* filter_signal argument, in half-Hertz
    high_cut,    \* filter_signal argument, in half-Hertz
    filtered,    \* value returned by filter_signal
    envelope,    \* integrated_signal of find_r_peaks, scaled by window_size
    r_peaks,     \* value returned by find_r_peaks
    hrv,         \* value returned by calculate_hrv_metrics
    raised,      \* type of the exception that left the last call, or None
    exit_status, \* exit status of the interpreter after main
    stableSort   \* whether numpy's argsort, as built, keeps equal keys in order

vars == <<pc, cache, downloaded, successes, record_name, record, signal, fs, low_cut,
          high_cut, filtered, envelope, r_peaks, hrv, raised,
          exit_status, stableSort>>

None == "None"

\* a float: a finite value, or one of IEEE's non-finite values
Num(v) == [kind |-> "num", val |-> v]
NaN == [kind |-> "nan", val |-> 0]
Inf == [kind |-> "inf", val |-> 0]
NegInf == [kind |-> "-inf", val |-> 0]
Unset == [kind |-> "unset", val |-> 0]
ValueError == "ValueError"
ZeroDivisionError == "ZeroDivisionError"
Exceptions == {ValueError, ZeroDivisionError}

-----------------------------------------------------------------------------
(* Arithmetic helpers *)

\* hundredths of a millisecond per second: (x / fs) * 1000, then round(x, 2)
CentiMsPerSecond == 100000

Abs(x) == IF x < 0 THEN -x ELSE x

Max2(a, b) == IF a >= b THEN a ELSE b

Min2(a, b) == IF a <= b THEN a ELSE b

RECURSIVE SumSeq(_)
SumSeq(s) == IF Len(s) = 0 THEN 0 ELSE Head(s) + SumSeq(Tail(s))

SumSq(s) == SumSeq([i \in 1..Len(s) |-> s[i] * s[i]])

\* floor(sqrt(n)) for n >= 0, by bisection on [lo, hi)
RECURSIVE ISqrtIn(_, _, _)
ISqrtIn(n, lo, hi) ==
    IF hi - lo <= 1 THEN lo
    ELSE LET mid == (lo + hi) \div 2
         IN  IF mid * mid <= n THEN ISqrtIn(n, mid, hi) ELSE ISqrtIn(n, lo, mid)

ISqrt(n) == ISqrtIn(n, 0, n + 1)

\* p / q (q > 0) rounded to the nearest integer, halves to the even neighbour
RoundDiv(p, q) ==
    LET f == p \div q
        r2 == 2 * (p - f * q)
    IN  IF r2 < q THEN f
        ELSE IF r2 > q THEN f + 1
        ELSE IF f % 2 = 0 THEN f ELSE f + 1

\* long-hand square root: from p = floor(sqrt(a) * 10^i) and r = a * 100^i - p^2
\* to floor(sqrt(a) * 10^(i + k)); every intermediate value stays below 200 * p
RECURSIVE SqrtDigits(_, _, _)
SqrtDigits(p, r, k) ==
    IF k = 0 THEN p
    ELSE LET c == 100 * r
             x == CHOOSE d \in 0..9 :
                    /\ d * (20 * p + d) <= c
                    /\ d < 9 => (d + 1) * (20 * p + d + 1) > c
         IN  SqrtDigits(10 * p + x, c - x * (20 * p + x), k - 1)

\* floor(sqrt(a) * 10^5)
SqrtScaled(a) == SqrtDigits(ISqrt(a), a - ISqrt(a) * ISqrt(a), 5)

\* 100000 * sqrt(a) / q (a >= 0, q > 0) rounded to the nearest integer
RoundedRoot(a, q) ==
    LET s == ISqrt(a)
    IN  IF s * s = a THEN RoundDiv(CentiMsPerSecond * s, q)
        ELSE (SqrtScaled(4 * a) + q) \div (2 * q)

\* np.diff on a one-dimensional sequence
np_diff(s) == [i \in 1..(Len(s) - 1) |-> s[i + 1] - s[i]]

-----------------------------------------------------------------------------
(* calculate_hrv_metrics *)

ZeroMetrics == [mean_rr |-> Num(0), sdnn |-> Num(0), rmssd |-> Num(0)]

NoMetrics == [mean_rr |-> Unset, sdnn |-> Unset, rmssd |-> Unset]

Sign(x) == IF x < 0 THEN -1 ELSE 1

\* round(np.mean(x), 2) for x[k] = (num[k] / rate) * 1000, rate # 0
RoundedMean(num, rate) ==
    IF Len(num) = 0 THEN NaN
    ELSE Num(RoundDiv(Sign(rate) * CentiMsPerSecond * SumSeq(num),
                      Abs(rate) * Len(num)))

\* round(np.std(x), 2): population standard deviation, divide by N
RoundedStd(num, rate) ==
    IF Len(num) = 0 THEN NaN
    ELSE LET n == Len(num)
             s == SumSeq(num)
         IN  Num(RoundedRoot(n * SumSq(num) - s * s, Abs(rate) * n))

\* round(np.sqrt(np.mean(d ** 2)), 2) for d[k] = (num[k] / rate) * 1000
RoundedRms(num, rate) ==
    IF Len(num) = 0 THEN NaN
    ELSE Num(RoundedRoot(Len(num) * SumSq(num), Abs(rate) * Len(num)))

\* the metrics when fs = 0: every interval is +-inf or nan
NonFiniteMetrics(rr) ==
    [mean_rr |-> IF Len(rr) = 0 THEN NaN
                 ELSE IF \A k \in 1..Len(rr) : rr[k] > 0 THEN Inf
                 ELSE IF \A k \in 1..Len(rr) : rr[k] < 0 THEN NegInf
                 ELSE NaN,
     sdnn |-> NaN,
     rmssd |-> NaN]

\* variant: only the empty sequence is degenerate
TooFewBeats_lt1(peaks) == Len(peaks) < 1

\* if len(r_peaks) < 2
TooFewBeats(peaks) == Len(peaks) < 2

calculate_hrv_metrics(peaks, rate) ==
    IF TooFewBeats(peaks) THEN ZeroMetrics
    ELSE LET rr_intervals_samples == np_diff(peaks)
             successive_diffs == np_diff(rr_intervals_samples)
         IN  IF rate = 0 THEN NonFiniteMetrics(rr_intervals_samples)
             ELSE [mean_rr |-> RoundedMean(rr_intervals_samples, rate),
                   sdnn |-> RoundedStd(rr_intervals_samples, rate),
                   rmssd |-> RoundedRms(successive_diffs, rate)]

-----------------------------------------------------------------------------
(* find_r_peaks *)

\* x[i] with Python's zero-based index
At(x, i) == x[i + 1]

\* int(0.150 * fs): the product truncated toward zero
window_size_of(rate) == (3 * rate) \div 20

\* int(0.3 * fs): the product truncated toward zero
min_distance_of(rate) == (3 * rate) \div 10

\* np.convolve(a, np.ones(w) / w, mode='same') times w, for non-empty a and
\* w >= 1: max(len(a), w) entries, entry i being entry i + (n - 1) \div 2 of
\* the full convolution, n = min(len(a), w)
ConvolveSame(a, w) ==
    LET la == Len(a)
        n == IF la < w THEN la ELSE w
        shift == (n - 1) \div 2
        Full(k) == SumSeq([j \in 1..(Min2(la - 1, k) - Max2(0, k - w + 1) + 1)
                             |-> At(a, Max2(0, k - w + 1) + j - 1)])
    IN  [i \in 1..Max2(la, w) |-> Full(i - 1 + shift)]

\* the look-ahead of _local_maxima_1d: the first index from i on whose sample
\* differs from x[at], or the last index when there is none
RECURSIVE IAhead(_, _, _)
IAhead(x, at, i) ==
    IF i < Len(x) - 1 /\ At(x, i) = At(x, at) THEN IAhead(x, at, i + 1) ELSE i

\* _local_maxima_1d: the midpoints of the runs of equal samples that have a
\* strictly smaller sample on both sides; the first and the last sample are
\* never part of a peak
LocalMaxima(x) ==
    {(l + IAhead(x, l, l + 1) - 1) \div 2 :
        l \in {i \in 1..(Len(x) - 2) :
                 /\ At(x, i - 1) < At(x, i)
                 /\ At(x, IAhead(x, i, i + 1)) < At(x, i)}}

\* x[i] >= np.mean(x) + 2 * np.std(x), the comparison find_peaks makes for
\* height=peak_threshold, on exact values
AtOrAboveThreshold(x, i) ==
    LET n == Len(x)
        s == SumSeq(x)
        e == n * At(x, i) - s
    IN  e >= 0 /\ e * e >= 4 * (n * SumSq(x) - s * s)

\* variant: every sample that reaches the threshold, local maximum or not
Candidates_noLocalMax(x) == {i \in 0..(Len(x) - 1) : AtOrAboveThreshold(x, i)}

\* the peaks find_peaks passes to the distance condition: local maxima whose
\* height reaches peak_threshold
Candidates(x) == {i \in LocalMaxima(x) : AtOrAboveThreshold(x, i)}

\* variant: the peaks visited from the start of argsort(height)
VisitedBefore_lowestFirst(x, i, j, stable) ==
    \/ At(x, i) < At(x, j)
    \/ /\ At(x, i) = At(x, j)
       /\ IF stable THEN i > j ELSE i < j

\* the order in which _select_by_peak_distance visits peaks: from the end of
\* argsort(height), so by decreasing height; of two equal heights a stable
\* sort leaves the later peak last, which is then visited first
VisitedBefore(x, i, j, stable) ==
    \/ At(x, i) > At(x, j)
    \/ /\ At(x, i) = At(x, j)
       /\ IF stable THEN i > j ELSE i < j

\* _select_by_peak_distance: visit the peaks in priority order; a peak still
\* kept when visited removes every peak closer than d to it
RECURSIVE SelectByPeakDistance(_, _, _, _, _)
SelectByPeakDistance(x, todo, kept, d, stable) ==
    IF todo = {} THEN kept
    ELSE LET j == CHOOSE c \in todo :
                    \A k \in todo \ {c} : VisitedBefore(x, c, k, stable)
         IN  IF \E k \in kept : Abs(j - k) < d
             THEN SelectByPeakDistance(x, todo \ {j}, kept, d, stable)
             ELSE SelectByPeakDistance(x, todo \ {j}, kept \cup {j}, d, stable)

\* a set of integers as the ascending sequence numpy returns
RECURSIVE Ascending(_)
Ascending(S) ==
    IF S = {} THEN <<>>
    ELSE LET m == CHOOSE v \in S : \A w \in S : v <= w
         IN  <<m>> \o Ascending(S \ {m})

\* the exception find_r_peaks lets through, if any: np.convolve refuses an
\* empty operand, find_peaks a distance below 1
find_r_peaks_raises(sig, rate) ==
    \/ Len(np_diff(sig)) = 0
    \/ window_size_of(rate) < 1
    \/ min_distance_of(rate) < 1

\* integrated_signal * window_size
Envelope(sig, rate) ==
    LET diff_signal == np_diff(sig)
        squared_signal == [i \in 1..Len(diff_signal) |-> diff_signal[i] * diff_signal[i]]
    IN  ConvolveSame(squared_signal, window_size_of(rate))

\* the indices find_peaks returns for the envelope env
PeaksOf(env, rate, stable) ==
    Ascending(SelectByPeakDistance(env, Candidates(env), {},
                                   min_distance_of(rate), stable))

\* the value find_r_peaks returns: r_peaks, as find_peaks gave them
find_r_peaks(sig, rate, stable) == PeaksOf(Envelope(sig, rate), rate, stable)

-----------------------------------------------------------------------------
(* load_ecg_record *)

RecordNames == {"patient001/s0010_re", "patient002/s0015lre"}

MaxLoads == 2

\* files_to_download: the .dat, .hea and .xyz file of a record
Files == {"dat", "hea", "xyz"}

\* variant: the existence test dropped
NeedsDownload_always(files) == TRUE

\* if not os.path.exists(f"{local_record_path}.hea")
NeedsDownload(files) == "hea" \notin files

\* the cache directories wfdb.dl_files can leave behind: all three files when
\* it returns, any of them when it raises part-way
AfterDownload(files, completed) ==
    IF completed THEN {files \cup Files}
    ELSE {files \cup got : got \in SUBSET Files}

\* wfdb.rdrecord reads the header and the signal file
Readable(files) == {"hea", "dat"} \subseteq files

-----------------------------------------------------------------------------
(* filter_signal *)

\* defaults of filter_signal, in half-Hertz: low_cut=0.5, high_cut=45.0
DefaultLowCut == 1
DefaultHighCut == 90
FilterOrder == 4

\* variant: the sampling rate taken for the Nyquist frequency
nyquist_sampling(rate) == 2 * rate

\* nyquist = 0.5 * fs, in half-Hertz
nyquist_of(rate) == rate

\* cut / nyquist as <<numerator, denominator>> with a positive denominator
Normalized(cut, nyquist) == <<cut * Sign(nyquist), Abs(nyquist)>>

\* butter(order, [low, high], btype='band') designs a filter only for
\* 0 < low < high < 1
butter_accepts(low, high) ==
    /\ low[1] > 0
    /\ high[1] > 0
    /\ low[1] * high[2] < high[1] * low[2]
    /\ low[1] < low[2]
    /\ high[1] < high[2]

\* filtfilt's default padlen, 3 * max(len(a), len(b)), for a band-pass of the
\* given order
padlen_of(order) == 3 * (2 * order + 1)

\* the exception filter_signal lets through, or None
filter_signal_raises(sig, rate, lo, hi) ==
    IF nyquist_of(rate) = 0 THEN ZeroDivisionError
    ELSE IF ~butter_accepts(Normalized(lo, nyquist_of(rate)),
                            Normalized(hi, nyquist_of(rate)))
    THEN ValueError
    ELSE IF Len(sig) <= padlen_of(FilterOrder) THEN ValueError
    ELSE None

-----------------------------------------------------------------------------
(* Inputs *)

MaxSteps == 6
TailLen == 40
StepSet == {0, 4, 5, 6}
PeakFsSet == {3, 12, 20}

Flat(n, v) == [i \in 1..n |-> v]

\* the signal that starts at start and moves by the given steps
RECURSIVE Cumulate(_, _)
Cumulate(steps, start) ==
    IF Len(steps) = 0 THEN <<start>>
    ELSE <<start>> \o Cumulate(Tail(steps), start + Head(steps))

\* sig followed by t more samples at its last value
WithTail(sig, t) == sig \o Flat(t, sig[Len(sig)])

StepSeqs == UNION {[1..n -> StepSet] : n \in 0..MaxSteps}

\* the empty signal, and the signals that start at 0, move by steps of
\* StepSet and then stay flat: the flat tail is what lets a few steep slopes
\* stand above mean + 2 * std
TestSignals ==
    {<<>>} \cup {WithTail(Cumulate(st, 0), t) : st \in StepSeqs, t \in {0, TailLen}}

MaxOutSteps == 3

\* filtfilt's arithmetic is not modelled: what it returns is some test signal
\* with as many samples as its input
FilterOutputs(n) ==
    {WithTail(Cumulate(st, 0), n - Len(st) - 1) :
        st \in {q \in StepSeqs : Len(q) <= MaxOutSteps /\ Len(q) < n}}

ShortLen == 20
LongLen == 30
MainFsSet == {60, 100}

\* the recordings rdrecord can find in a record's files
Recordings ==
    {[fs |-> f, p_signal |-> sig] :
        f \in MainFsSet,
        sig \in {Flat(ShortLen, 0), Flat(LongLen, 0), WithTail(<<0, 4>>, LongLen - 2)}}

NoRecord == [ok |-> FALSE, name |-> "", fs |-> 0, p_signal |-> <<>>]

-----------------------------------------------------------------------------
(* Steps of a run *)

\* find_r_peaks(signal=filtered, fs=fs)
FindRPeaks ==
    /\ pc = "filtered"
    /\ IF find_r_peaks_raises(filtered, fs)
       THEN /\ raised' = ValueError
            /\ pc' = "raised"
            /\ UNCHANGED <<envelope, r_peaks>>
       ELSE /\ envelope' = Envelope(filtered, fs)
            /\ r_peaks' = find_r_peaks(filtered, fs, stableSort)
            /\ pc' = "peaks"
            /\ UNCHANGED raised
    /\ UNCHANGED <<cache, downloaded, successes, record_name, record, signal, fs, low_cut,
                   high_cut, filtered, hrv, exit_status, stableSort>>

\* calculate_hrv_metrics(r_peaks=r_peaks, fs=fs)
CalculateHRV ==
    /\ pc = "peaks"
    /\ hrv' = calculate_hrv_metrics(r_peaks, fs)
    /\ pc' = "hrv"
    /\ UNCHANGED <<cache, downloaded, successes, record_name, record, signal, fs, low_cut,
                   high_cut, filtered, envelope, r_peaks, raised, exit_status,
                   stableSort>>

\* load_ecg_record(record_name=name): what the call does to the cache
\* directory and what it returns.  An exception of dl_files or rdrecord is caught and turned
\* into None.
load_ecg_record(name) ==
    /\ record_name' = name
    /\ downloaded' = NeedsDownload(cache[name])
    /\ \E completed \in BOOLEAN :
          /\ \E files \in (IF NeedsDownload(cache[name])
                           THEN AfterDownload(cache[name], completed)
                           ELSE {cache[name]}) :
                cache' = [cache EXCEPT ![name] = files]
          /\ IF (NeedsDownload(cache[name]) => completed) /\ Readable(cache'[name])
             THEN /\ \E rec \in Recordings :
                        record' = [ok |-> TRUE, name |-> name, fs |-> rec.fs,
                                   p_signal |-> rec.p_signal]
                  /\ successes' = [successes EXCEPT
                                      ![name] = Min2(successes[name] + 1, MaxLoads)]
             ELSE /\ record' = NoRecord
                  /\ UNCHANGED successes

\* main: record = load_ecg_record(record_name=record_name); if record: ...
MainLoad ==
    /\ pc = "start"
    /\ load_ecg_record("patient001/s0010_re")
    /\ IF record'.ok
       THEN /\ signal' = record'.p_signal
            /\ fs' = record'.fs
            /\ pc' = "loaded"
       ELSE /\ pc' = "load_failed"
            /\ UNCHANGED <<signal, fs>>
    /\ UNCHANGED <<low_cut, high_cut, filtered, envelope, r_peaks, hrv, raised,
                   exit_status, stableSort>>

\* one more call of load_ecg_record, for any record name
LoadAgain ==
    /\ pc = "loading"
    /\ \E name \in RecordNames : load_ecg_record(name)
    /\ UNCHANGED <<pc, signal, fs, low_cut, high_cut, filtered, envelope,
                   r_peaks, hrv, raised, exit_status, stableSort>>

\* filter_signal(signal, fs, low_cut, high_cut)
FilterSignal ==
    /\ pc = "loaded"
    /\ IF filter_signal_raises(signal, fs, low_cut, high_cut) # None
       THEN /\ raised' = filter_signal_raises(signal, fs, low_cut, high_cut)
            /\ pc' = "raised"
            /\ UNCHANGED filtered
       ELSE /\ filtered' \in FilterOutputs(Len(signal))
            /\ pc' = "filtered"
            /\ UNCHANGED raised
    /\ UNCHANGED <<cache, downloaded, successes, record_name, record, signal,
                   fs, low_cut, high_cut, envelope, r_peaks, hrv, exit_status,
                   stableSort>>

\* main prints the metrics and returns: the interpreter exits with status 0
Report ==
    /\ pc = "hrv"
    /\ pc' = "done"
    /\ exit_status' = "success"
    /\ UNCHANGED <<cache, downloaded, successes, record_name, record, signal,
                   fs, low_cut, high_cut, filtered, envelope, r_peaks, hrv,
                   raised, stableSort>>

\* main's else branch prints "Data Loading Failed. Exiting Pipeline." and
\* returns: the interpreter exits with status 0
LoadFailed ==
    /\ pc = "load_failed"
    /\ pc' = "done"
    /\ exit_status' = "success"
    /\ UNCHANGED <<cache, downloaded, successes, record_name, record, signal,
                   fs, low_cut, high_cut, filtered, envelope, r_peaks, hrv,
                   raised, stableSort>>

\* an exception nobody catches leaves main: traceback, exit status 1
Crash ==
    /\ pc = "raised"
    /\ pc' = "done"
    /\ exit_status' = "failure"
    /\ UNCHANGED <<cache, downloaded, successes, record_name, record, signal,
                   fs, low_cut, high_cut, filtered, envelope, r_peaks, hrv,
                   raised, stableSort>>

\* the variables a specification does not use
Idle ==
    /\ downloaded = FALSE
    /\ successes = [n \in RecordNames |-> 0]
    /\ record_name = ""
    /\ record = NoRecord
    /\ exit_status = "none"
    /\ raised = None
    /\ hrv = NoMetrics

-----------------------------------------------------------------------------
(* find_r_peaks followed by calculate_hrv_metrics, on every test signal *)

InitPeaks ==
    /\ pc = "filtered"
    /\ filtered \in TestSignals
    /\ fs \in PeakFsSet
    /\ stableSort \in BOOLEAN
    /\ signal = filtered
    /\ envelope = <<>>
    /\ r_peaks = <<>>
    /\ low_cut = DefaultLowCut
    /\ high_cut = DefaultHighCut
    /\ cache = [n \in RecordNames |-> {}]
    /\ Idle

NextPeaks == FindRPeaks \/ CalculateHRV

SpecPeaks == InitPeaks /\ [][NextPeaks]_vars

-----------------------------------------------------------------------------
(* calculate_hrv_metrics on every beat index sequence *)

MaxBeats == 3
MaxBeatIdx == 5
HrvFsSet == {-1, 0, 1, 4, 5}

BeatSeqs == UNION {[1..n -> 0..MaxBeatIdx] : n \in 0..MaxBeats}

InitHRV ==
    /\ pc = "peaks"
    /\ r_peaks \in BeatSeqs
    /\ fs \in HrvFsSet
    /\ stableSort = TRUE
    /\ signal = <<>>
    /\ filtered = <<>>
    /\ envelope = <<>>
    /\ low_cut = DefaultLowCut
    /\ high_cut = DefaultHighCut
    /\ cache = [n \in RecordNames |-> {}]
    /\ Idle

NextHRV == CalculateHRV

SpecHRV == InitHRV /\ [][NextHRV]_vars

-----------------------------------------------------------------------------
(* filter_signal on every combination of cutoffs *)

CutSet == {-1, 0, 1, 90, 110, 300}
FilterFsSet == {-100, 0, 100, 250}

InitFilter ==
    /\ pc = "loaded"
    /\ signal \in {<<>>, Flat(ShortLen, 0), WithTail(<<0, 4>>, LongLen - 2)}
    /\ fs \in FilterFsSet
    /\ low_cut \in CutSet
    /\ high_cut \in CutSet
    /\ stableSort = TRUE
    /\ filtered = <<>>
    /\ envelope = <<>>
    /\ r_peaks = <<>>
    /\ cache = [n \in RecordNames |-> {}]
    /\ Idle

NextFilter == FilterSignal

SpecFilter == InitFilter /\ [][NextFilter]_vars

-----------------------------------------------------------------------------
(* main, from any state of the record's cache directory *)

InitMain ==
    /\ pc = "start"
    /\ cache \in {[n \in RecordNames |->
                     IF n = "patient001/s0010_re" THEN files ELSE {}] :
                  files \in SUBSET Files}
    /\ stableSort \in BOOLEAN
    /\ signal = <<>>
    /\ fs = 0
    /\ low_cut = DefaultLowCut
    /\ high_cut = DefaultHighCut
    /\ filtered = <<>>
    /\ envelope = <<>>
    /\ r_peaks = <<>>
    /\ Idle

NextMain ==
    \/ MainLoad
    \/ LoadFailed
    \/ FilterSignal
    \/ FindRPeaks
    \/ CalculateHRV
    \/ Report
    \/ Crash

SpecMain == InitMain /\ [][NextMain]_vars

-----------------------------------------------------------------------------
(* repeated calls of load_ecg_record on one cache directory *)

InitLoad ==
    /\ pc = "loading"
    /\ cache = [n \in RecordNames |-> {}]
    /\ stableSort = TRUE
    /\ signal = <<>>
    /\ fs = 0
    /\ low_cut = DefaultLowCut
    /\ high_cut = DefaultHighCut
    /\ filtered = <<>>
    /\ envelope = <<>>
    /\ r_peaks = <<>>
    /\ Idle

NextLoad == LoadAgain

SpecLoad == InitLoad /\ [][NextLoad]_vars

-----------------------------------------------------------------------------
(* Properties of calculate_hrv_metrics *)

\* C1: with fs > 0 and exactly two beat indices the returned rmssd is 0, and
\* calculate_hrv_metrics([0, fs], fs) returns mean_rr = 1000.0, sdnn = 0.0,
\* rmssd = 0.0.
C1_TwoBeatsRmssdZero ==
    (pc = "hrv" /\ Len(r_peaks) = 2 /\ fs > 0) =>
        /\ hrv.rmssd = Num(0)
        /\ r_peaks = <<0, fs>> =>
              hrv = [mean_rr |-> Num(CentiMsPerSecond), sdnn |-> Num(0),
                     rmssd |-> Num(0)]

\* C2: with fewer than two beat indices, whatever fs is, the call does not
\* fail and returns exactly the keys mean_rr, sdnn and rmssd, each 0.
C2_DegenerateAllZero ==
    (pc = "hrv" /\ Len(r_peaks) < 2) =>
        /\ raised = None
        /\ DOMAIN hrv = {"mean_rr", "sdnn", "rmssd"}
        /\ \A m \in DOMAIN hrv : hrv[m] = Num(0)

C2_Witness ==
    /\ pc = "hrv"
    /\ r_peaks = <<5>>
    /\ fs = 0
    /\ hrv = ZeroMetrics

-----------------------------------------------------------------------------
(* Properties of find_r_peaks *)

Returned == pc \in {"peaks", "hrv"}

\* round(0.3 * fs), the refractory distance the specification states
min_distance_round(rate) == RoundDiv(3 * rate, 10)

PeakSet == {r_peaks[i] : i \in 1..Len(r_peaks)}

\* C3: the returned indices are strictly increasing and adjacent ones are at
\* least round(0.3 * fs) apart.
C3_RefractorySpacing ==
    (Returned /\ fs > 0) =>
        \A i \in 1..(Len(r_peaks) - 1) :
            /\ r_peaks[i] < r_peaks[i + 1]
            /\ r_peaks[i + 1] - r_peaks[i] >= min_distance_round(fs)

\* the half of C4 about the range: every returned index is an offset into
\* the signal passed in
ValidOffsets ==
    Returned => \A i \in 1..Len(r_peaks) : 0 <= r_peaks[i] /\ r_peaks[i] < Len(filtered)

\* C4: every returned index is a valid offset into the signal passed in, and
\* is the position found in the integrated sequence moved by the one-sample
\* shift of the differentiation, not that position itself.
C4_RemappedValidOffsets ==
    Returned =>
        /\ \A i \in 1..Len(r_peaks) : 0 <= r_peaks[i] /\ r_peaks[i] < Len(filtered)
        /\ r_peaks = [i \in 1..Len(PeaksOf(envelope, fs, stableSort)) |->
                         PeaksOf(envelope, fs, stableSort)[i] + 1]

\* C5: for fs > 0 and a signal of 0, 1 or 2 samples the call raises nothing
\* and returns the empty sequence.
C5_ShortSignalEmpty ==
    (pc # "filtered" /\ fs > 0 /\ Len(filtered) <= 2) =>
        /\ raised = None
        /\ r_peaks = <<>>

IsConstant(x) == \A i \in 1..Len(x) : x[i] = x[1]

\* n^2 times the variance of x
Spread(x) == Len(x) * SumSq(x) - SumSeq(x) * SumSeq(x)

\* C6: when the envelope is constant the threshold is the envelope mean, no
\* index is returned, nothing is raised, and calculate_hrv_metrics then
\* returns the all-zero metric set.
C6_ConstantEnvelopeEmpty ==
    (Returned /\ IsConstant(envelope)) =>
        /\ Spread(envelope) = 0
        /\ r_peaks = <<>>
        /\ raised = None
        /\ pc = "hrv" => hrv = ZeroMetrics

C6_Witness ==
    /\ pc = "hrv"
    /\ Len(envelope) > 2
    /\ IsConstant(envelope)
    /\ envelope[1] > 0
    /\ hrv = ZeroMetrics

TooClose(i, j) == i # j /\ Abs(i - j) < min_distance_of(fs)

\* C10: of two candidate maxima above the threshold that are closer than the
\* refractory distance, the higher one is returned and the other is not.
C10_HigherOfTwoKept ==
    Returned =>
        \A i, j \in Candidates(envelope) :
            (TooClose(i, j) /\ At(envelope, i) > At(envelope, j)) =>
                i \in PeakSet /\ j \notin PeakSet

\* C10 as amended: of two candidates closer than the refractory distance at
\* most one is returned, and a candidate is left out only when a returned
\* candidate at least as high is closer to it than the refractory distance.
C10_DiscardedHasHigherKept ==
    Returned =>
        /\ PeakSet \subseteq Candidates(envelope)
        /\ \A i, j \in PeakSet : ~TooClose(i, j)
        /\ \A j \in Candidates(envelope) \ PeakSet :
              \E k \in PeakSet :
                  TooClose(k, j) /\ At(envelope, k) >= At(envelope, j)

C10_Witness ==
    /\ pc = "peaks"
    /\ \E i, j \in Candidates(envelope) :
          /\ TooClose(i, j)
          /\ At(envelope, i) > At(envelope, j)
          /\ i \in PeakSet
          /\ j \notin PeakSet

-----------------------------------------------------------------------------
(* Properties of filter_signal, main and load_ecg_record *)

\* 0 < low_cut < high_cut < fs / 2, the cutoffs being in half-Hertz
CutoffsValid == 0 < low_cut /\ low_cut < high_cut /\ high_cut < fs

\* C7: whenever the cutoffs violate 0 < low_cut < high_cut < fs/2 the call
\* ends in an error and returns no filtered signal.
C7_BadCutoffsFail ==
    (pc \in {"filtered", "raised"} /\ ~CutoffsValid) =>
        /\ pc = "raised"
        /\ raised \in Exceptions
        /\ filtered = <<>>

C7_Witness ==
    /\ pc = "raised"
    /\ raised = ValueError
    /\ Len(signal) > padlen_of(FilterOrder)
    /\ 0 < low_cut
    /\ low_cut < high_cut
    /\ fs > 0
    /\ high_cut >= fs

\* C8: a run of main ends with success status only if load_ecg_record
\* returned a record and filter_signal returned a signal; when either failed
\* it ends with failure status.
C8_SuccessOnlyAfterLoadAndFilter ==
    pc = "done" =>
        /\ exit_status = "success" => (record.ok /\ Len(filtered) > 0)
        /\ (~record.ok \/ Len(filtered) = 0) => exit_status = "failure"

\* C9: a call downloads only when the record is not in the cache, and once a
\* load of a record has succeeded every later load of it downloads nothing,
\* leaves the cache as it is and returns the record.
C9_DownloadOnlyOnFirstUse ==
    [][LET name == record_name'
       IN  /\ downloaded' => ~Readable(cache[name])
           /\ successes[name] > 0 =>
                 /\ ~downloaded'
                 /\ cache' = cache
                 /\ record'.ok]_vars

C9_Witness ==
    /\ pc = "loading"
    /\ record.ok
    /\ ~downloaded
    /\ successes[record_name] >= 2

====
